---- MODULE Spec2Model ----
(***************************************************************************)
(* Model of TreeBodyProblem.py: the Body class (update, check_boundaries,  *)
(* update_trace, calculate_grav_force), the free functions                 *)
(* calculate_gravitational_force and add_tuples, and the event/frame loop  *)
(* of main.                                                                *)
(*                                                                         *)
(* Numbers.  Python floats are modelled as fixed-point numbers with one    *)
(* decimal digit: a float value v is the integer 10*v, rounded toward 0.   *)
(* Positions, velocities, forces and rebound_factor are fixed-point        *)
(* (x = 4000 is x = 400.0, rebound_factor = 5 is 0.5); mass, g, width,     *)
(* height and max_bodies are the integers of main's typed options.         *)
(* Fx converts an integer to fixed-point; FxMul, FxDiv multiply and divide *)
(* fixed-point numbers.  mass is positive in every state modelled          *)
(* (mass = 0 makes update raise ZeroDivisionError).                        *)
(***************************************************************************)
EXTENDS Integers, Sequences, FiniteSets, TLC

VARIABLES opts,      \* main's options: width, height, max_bodies, rebound_factor, mass, g
          bodies,    \* the list `bodies` (main), or the bodies under test
          running,   \* main's loop flag
          pc,        \* where the program is: "events", "frame", "done", "error", "unit"
          idx,       \* 1-based position of `for body in bodies` inside a frame
          frames,    \* number of frames started
          warnings,  \* number of logging.warning records emitted
          frame0,    \* history: `bodies` as it was when the current frame began
          last,      \* history: the last operation, its arguments and the state before it
          arg,       \* unit calls: the force handed to update, and g
          calls,     \* unit calls: number of calls made so far
          hist       \* unit calls, history: every position bodies[1] had after an update

vars == <<opts, bodies, running, pc, idx, frames, warnings, frame0, last, arg, calls, hist>>

(***************************************************************************)
(* Fixed-point arithmetic                                                  *)
(***************************************************************************)
\* Integer division rounding toward zero (d > 0).
TDiv(n, d) == IF n >= 0 THEN n \div d ELSE -((-n) \div d)

Fx(n) == n * 10
FxMul(a, b) == TDiv(a * b, 10)
FxDiv(a, b) == TDiv(a * 10, b)

Max(a, b) == IF a >= b THEN a ELSE b
Min(a, b) == IF a <= b THEN a ELSE b

RECURSIVE isqrtIter(_, _, _)
isqrtIter(n, lo, hi) ==
    IF lo >= hi THEN lo
    ELSE LET mid == (lo + hi + 1) \div 2
         IN  IF mid * mid <= n THEN isqrtIter(n, mid, hi)
                               ELSE isqrtIter(n, lo, mid - 1)

\* floor of the square root of an integer n >= 0
isqrt(n) == isqrtIter(n, 0, Min(n, 46340))

\* math.sqrt of a fixed-point number a (a/10), as a fixed-point number
FxSqrt(a) == isqrt(a * 10)

\* math.sqrt(dx**2 + dy**2) for fixed-point dx, dy
Hypot(dx, dy) == isqrt(dx * dx + dy * dy)

\* math.atan2(dy, dx): the angle is kept as the direction it denotes;
\* atan2(0, 0) is 0, the direction of the positive x axis.
atan2(dy, dx) == IF dx = 0 /\ dy = 0 THEN <<0, 1>> ELSE <<dy, dx>>

\* math.cos and math.sin of such an angle, fixed-point
cos(angle) == FxDiv(angle[2], Hypot(angle[2], angle[1]))
sin(angle) == FxDiv(angle[1], Hypot(angle[2], angle[1]))

(***************************************************************************)
(* COLORS and class Body                                                   *)
(***************************************************************************)
COLORS == << <<255, 0, 0>>, <<0, 255, 0>>, <<0, 0, 255>>, <<255, 255, 0>>,
             <<255, 0, 255>>, <<0, 255, 255>>, <<128, 128, 128>> >>

\* The value standing for a raised IndexError (no color is an empty tuple).
IndexError == <<>>

\* COLORS indexed modulo its length
ColorsCyclic(k) == COLORS[(k % Len(COLORS)) + 1]

\* COLORS[k] with Python's list indexing: 0-based, negative k counts from
\* the end, anything else raises IndexError.
ColorsAt(k) ==
    IF 0 <= k /\ k < Len(COLORS) THEN COLORS[k + 1]
    ELSE IF -Len(COLORS) <= k /\ k < 0 THEN COLORS[k + Len(COLORS) + 1]
    ELSE IndexError

\* Body.__init__
Body(x, y, mass, velocity, color, rebound_factor, screen_width, screen_height) ==
    [x |-> x, y |-> y, mass |-> mass,
     radius |-> isqrt(4 * mass),
     vx |-> velocity[1], vy |-> velocity[2],
     color |-> color, trace |-> <<>>,
     rebound_factor |-> rebound_factor,
     screen_width |-> screen_width, screen_height |-> screen_height]

\* Body.__eq__ ; `a != b` is its negation
Eq(self, other) == self.color = other.color

\* Body.update_trace
TraceLimit == 100

update_trace(self) ==
    LET appended == Append(self.trace, <<self.x, self.y>>)
    IN  [self EXCEPT !.trace = IF Len(appended) = TraceLimit
                               THEN Tail(appended) ELSE appended]

\* check_y with the velocity scaled but not reversed
check_y_no_reverse(self) ==
    IF self.y < 0
    THEN [self EXCEPT !.y = 0, !.vy = FxMul(self.vy, self.rebound_factor)]
    ELSE IF self.y > Fx(self.screen_height)
    THEN [self EXCEPT !.y = Fx(self.screen_height),
                      !.vy = FxMul(self.vy, self.rebound_factor)]
    ELSE self

\* Body.check_boundaries: the y statement, then the x statement
check_y(self) ==
    IF self.y < 0
    THEN [self EXCEPT !.y = 0, !.vy = FxMul(self.vy, -self.rebound_factor)]
    ELSE IF self.y > Fx(self.screen_height)
    THEN [self EXCEPT !.y = Fx(self.screen_height),
                      !.vy = FxMul(self.vy, -self.rebound_factor)]
    ELSE self

check_x(self) ==
    IF self.x < 0
    THEN [self EXCEPT !.x = 0, !.vx = FxMul(self.vx, -self.rebound_factor)]
    ELSE IF self.x > Fx(self.screen_width)
    THEN [self EXCEPT !.x = Fx(self.screen_width),
                      !.vx = FxMul(self.vx, -self.rebound_factor)]
    ELSE self

check_boundaries(self) == check_x(check_y(self))

\* integrate with the position advanced by the velocity before the update
integrate_old_velocity(self, force_x, force_y) ==
    LET ax == TDiv(force_x, self.mass)
        ay == TDiv(force_y, self.mass)
    IN  [self EXCEPT !.vx = self.vx + ax, !.vy = self.vy + ay,
                     !.x = self.x + self.vx, !.y = self.y + self.vy]

\* Body.update, lines 55-60: acceleration, velocity, then position
integrate(self, force_x, force_y) ==
    LET ax == TDiv(force_x, self.mass)
        ay == TDiv(force_y, self.mass)
        vx == self.vx + ax
        vy == self.vy + ay
    IN  [self EXCEPT !.vx = vx, !.vy = vy, !.x = self.x + vx, !.y = self.y + vy]

\* update with the trace written before the boundary check
update_trace_first(self, force_x, force_y) ==
    check_boundaries(update_trace(integrate(self, force_x, force_y)))

\* Body.update
update(self, force_x, force_y) ==
    update_trace(check_boundaries(integrate(self, force_x, force_y)))

(***************************************************************************)
(* Free functions                                                          *)
(***************************************************************************)
CUTOFF == 40

\* calculate_gravitational_force without the test of lines 100-101
calculate_gravitational_force_no_cutoff(p1, p2, g) ==
    LET dx == p2.x - p1.x
        dy == p2.y - p1.y
        distance == Max(Fx(1), Hypot(dx, dy))
        force == FxDiv(Fx(g * p1.mass * p2.mass), FxMul(distance, distance))
        angle == atan2(dy, dx)
    IN  <<FxMul(force, cos(angle)), FxMul(force, sin(angle))>>

calculate_gravitational_force(p1, p2, g) ==
    LET dx == p2.x - p1.x
        dy == p2.y - p1.y
        distance == Max(Fx(1), Hypot(dx, dy))
    IN  IF distance < Fx(CUTOFF) THEN <<0, 0>>
        ELSE LET force == FxDiv(Fx(g * p1.mass * p2.mass), FxMul(distance, distance))
                 angle == atan2(dy, dx)
             IN  <<FxMul(force, cos(angle)), FxMul(force, sin(angle))>>

RECURSIVE add_tuples_from(_, _, _, _)
add_tuples_from(tuple, i, even, odd) ==
    IF i > Len(tuple) THEN <<even, odd>>
    ELSE IF (i - 1) % 2 = 0
         THEN add_tuples_from(tuple, i + 1, even + tuple[i], odd)
         ELSE add_tuples_from(tuple, i + 1, even, odd + tuple[i])

add_tuples(tuple) == add_tuples_from(tuple, 1, 0, 0)

\* Body.calculate_grav_force, lines 44-47: `force += (fx, fy)` extends the
\* tuple `force` by the two components, for every body that `!=` self.
RECURSIVE force_tuple(_, _, _, _, _)
force_tuple(self, bs, g, j, force) ==
    IF j > Len(bs) THEN force
    ELSE force_tuple(self, bs, g, j + 1,
                     IF ~Eq(bs[j], self)
                     THEN force \o calculate_gravitational_force(self, bs[j], g)
                     ELSE force)

\* lines 44-48: the net force (force1x, force1y) on self
net_force(self, bs, g) == add_tuples(force_tuple(self, bs, g, 1, <<0, 0>>))

\* Body.calculate_grav_force: the body after the call
calculate_grav_force(self, bs, g) ==
    LET f == net_force(self, bs, g) IN update(self, f[1], f[2])

(***************************************************************************)
(* main: options, setup and the initial bodies                             *)
(***************************************************************************)
\* Bounds of the model
MaxBodiesCap == 11   \* max_bodies is drawn from 0 .. MaxBodiesCap
MaxFrames == 2       \* frames run by the loop
MaxWarnings == 2     \* warnings recorded
MaxCalls == 2        \* method calls made on a body under test
MaxUpdates == 150    \* update calls made when the trace is followed

side == 200
initial_y == 400

\* velocity=(0.1, 0.1) and its variants, fixed-point: 0.1 is 1
V(sx, sy) == <<sx, sy>>

InitialBodies(o) ==
    LET x == FxSqrt(Fx(side * side) - FxMul(TDiv(Fx(side), 2), TDiv(Fx(side), 2)))
        initial_x == TDiv(Fx(o.width), 2) - TDiv(Fx(side), 2)
        body1 == Body(initial_x, Fx(initial_y), o.mass, V(1, 1), <<116, 148, 196>>,
                      o.rebound_factor, o.width, o.height)
        body2 == Body(TDiv(initial_x + (initial_x + Fx(side)), 2), Fx(initial_y) - x,
                      o.mass, V(-1, 1), <<106, 77, 97>>,
                      o.rebound_factor, o.width, o.height)
        body3 == Body(initial_x + Fx(side), Fx(initial_y), o.mass, V(1, -1),
                      <<195, 212, 7>>, o.rebound_factor, o.width, o.height)
    IN  <<body1, body2, body3>>

\* The option values explored (typer options of main)
Options ==
    [width : {800, 150}, height : {600}, max_bodies : {2, 3, 5, MaxBodiesCap},
     rebound_factor : {5}, mass : {10}, g : {10000}]

\* pygame.mouse.get_pos(): positions inside the window
MousePositions == {<<100, 100>>}

\* The history record: the operation, `bodies`, `warnings` and `running` before
\* it, the index it acted on and the force it computed or was given.
NoOp == [op |-> "none", pre |-> <<>>, i |-> 0, force |-> <<0, 0>>,
         warnings |-> 0, running |-> TRUE]

Did(op, i, force) ==
    [op |-> op, pre |-> bodies, i |-> i, force |-> force,
     warnings |-> warnings, running |-> running]

InitMain ==
    /\ opts \in Options
    /\ bodies = InitialBodies(opts)
    /\ running = TRUE
    /\ pc = "events"
    /\ idx = 0
    /\ frames = 0
    /\ warnings = 0
    /\ frame0 = <<>>
    /\ last = NoOp
    /\ arg = [fx |-> 0, fy |-> 0, g |-> 0]
    /\ calls = 0
    /\ hist = <<>>

(***************************************************************************)
(* main: the loop                                                          *)
(***************************************************************************)
\* line 192 with <= for <
HasRoomOffByOne(n, max_bodies) == n <= max_bodies

\* line 192: len(bodies) < max_bodies

HasRoom(n, max_bodies) == n < max_bodies

\* lines 189-190: a QUIT event
Quit ==
    /\ pc = "events"
    /\ running' = FALSE
    /\ last' = Did("quit", 0, <<0, 0>>)
    /\ UNCHANGED <<opts, bodies, pc, idx, frames, warnings, frame0, arg, calls, hist>>

\* lines 191-207: a MOUSEBUTTONDOWN event with the mouse at `mouse`
Click(mouse) ==
    /\ pc = "events"
    /\ last' = Did("click", 0, <<0, 0>>)
    /\ IF HasRoom(Len(bodies), opts.max_bodies)
       THEN LET color == ColorsAt(Len(bodies) - 3)
            IN  IF color = IndexError
                THEN /\ pc' = "error"
                     /\ UNCHANGED <<bodies, warnings>>
                ELSE /\ bodies' = Append(bodies,
                            Body(Fx(mouse[1]), Fx(mouse[2]), opts.mass, V(1, 1), color,
                                 opts.rebound_factor, opts.width, opts.height))
                     /\ UNCHANGED <<pc, warnings>>
       ELSE /\ warnings < MaxWarnings
            /\ warnings' = warnings + 1
            /\ UNCHANGED <<bodies, pc>>
    /\ UNCHANGED <<opts, running, idx, frames, frame0, arg, calls, hist>>

\* line 209: the event queue is drained, the frame begins
BeginFrame ==
    /\ pc = "events"
    /\ frames < MaxFrames
    /\ pc' = "frame"
    /\ idx' = 1
    /\ frames' = frames + 1
    /\ frame0' = bodies
    /\ last' = Did("begin", 0, <<0, 0>>)
    /\ UNCHANGED <<opts, bodies, running, warnings, arg, calls, hist>>

\* line 212, on a snapshot of the bodies taken when the frame began
step_body_snapshot(bs, i, g) ==
    [bs EXCEPT ![i] = calculate_grav_force(bs[i], [frame0 EXCEPT ![i] = bs[i]], g)]

\* line 212: body.calculate_grav_force(bodies, g=g) for the body at position i
step_body(bs, i, g) == [bs EXCEPT ![i] = calculate_grav_force(bs[i], bs, g)]

\* lines 211-213: one iteration of `for body in bodies`
StepBody ==
    /\ pc = "frame"
    /\ idx <= Len(bodies)
    /\ bodies' = step_body(bodies, idx, opts.g)
    /\ idx' = idx + 1
    /\ last' = Did("step", idx, net_force(bodies[idx], bodies, opts.g))
    /\ UNCHANGED <<opts, running, pc, frames, warnings, frame0, arg, calls, hist>>

\* lines 215-216 and the loop test of line 187
EndFrame ==
    /\ pc = "frame"
    /\ idx > Len(bodies)
    /\ pc' = IF running THEN "events" ELSE "done"
    /\ last' = Did("end", 0, <<0, 0>>)
    /\ UNCHANGED <<opts, bodies, running, idx, frames, warnings, frame0, arg, calls, hist>>

NextMain ==
    \/ Quit
    \/ \E mouse \in MousePositions : Click(mouse)
    \/ BeginFrame
    \/ StepBody
    \/ EndFrame

Spec == InitMain /\ [][NextMain]_vars

(***************************************************************************)
(* Calls made directly on one Body, and on calculate_gravitational_force   *)
(***************************************************************************)
NoOptions == [width |-> 0, height |-> 0, max_bodies |-> 0,
              rebound_factor |-> 0, mass |-> 1, g |-> 0]

InitUnit(bs, a) ==
    /\ opts = NoOptions
    /\ bodies = bs
    /\ arg = a
    /\ running = TRUE
    /\ pc = "unit"
    /\ idx = 0
    /\ frames = 0
    /\ warnings = 0
    /\ frame0 = <<>>
    /\ last = NoOp
    /\ calls = 0
    /\ hist = <<>>

\* bodies[1].update(arg.fx, arg.fy), at most `limit` times
CallUpdate(limit) ==
    /\ pc = "unit"
    /\ calls < limit
    /\ bodies' = [bodies EXCEPT ![1] = update(bodies[1], arg.fx, arg.fy)]
    /\ hist' = Append(hist, <<bodies'[1].x, bodies'[1].y>>)
    /\ last' = Did("update", 1, <<arg.fx, arg.fy>>)
    /\ calls' = calls + 1
    /\ UNCHANGED <<opts, running, pc, idx, frames, warnings, frame0, arg>>

\* bodies[1].check_boundaries()
CallCheckBoundaries ==
    /\ pc = "unit"
    /\ calls < MaxCalls
    /\ bodies' = [bodies EXCEPT ![1] = check_boundaries(bodies[1])]
    /\ last' = Did("check", 1, <<0, 0>>)
    /\ calls' = calls + 1
    /\ UNCHANGED <<opts, running, pc, idx, frames, warnings, frame0, arg, hist>>

\* calculate_gravitational_force(bodies[1], bodies[2], arg.g)
CallGravitationalForce ==
    /\ pc = "unit"
    /\ calls < MaxCalls
    /\ last' = Did("force", 1, calculate_gravitational_force(bodies[1], bodies[2], arg.g))
    /\ calls' = calls + 1
    /\ UNCHANGED <<opts, bodies, running, pc, idx, frames, warnings, frame0, arg, hist>>

\* Bodies under test: (screen_width, screen_height), positions on and off the
\* screen, velocities, mass, rebound_factor; forces handed to update.
Screens == {<<0, 0>>, <<100, 60>>}
StartXs == {-20, 0, 400, 1000, 1020}
StartYs == {-20, 0, 600, 650}
Velocities == {<<-50, -50>>, <<0, 0>>, <<50, -50>>, <<1, 1>>}
Masses == {1, 10}
ReboundFactors == {0, 5, 10}
Forces == {<<0, 0>>, <<100, -300>>, <<-2000, 2000>>}

InitUpdate ==
    \E s \in Screens, x \in StartXs, y \in StartYs, v \in Velocities,
       m \in Masses, r \in ReboundFactors, f \in Forces :
        InitUnit(<<Body(x, y, m, v, <<255, 0, 0>>, r, s[1], s[2])>>,
                 [fx |-> f[1], fy |-> f[2], g |-> 0])

NextUpdate == CallUpdate(MaxCalls) \/ CallCheckBoundaries

SpecUpdate == InitUpdate /\ [][NextUpdate]_vars

\* One body followed over many updates under a constant force.
InitTrace ==
    \E x \in {0, 400}, v \in {<<1, 1>>, <<50, -50>>}, f \in {<<0, 0>>, <<100, -300>>} :
        InitUnit(<<Body(x, 300, 10, v, <<255, 0, 0>>, 5, 100, 60)>>,
                 [fx |-> f[1], fy |-> f[2], g |-> 0])

NextTrace == CallUpdate(MaxUpdates)

SpecTrace == InitTrace /\ [][NextTrace]_vars

\* Two bodies at chosen offsets: coincident, closer than 40, at exactly 40
\* (24, 32), just inside it, and far apart.
Offsets == {<<0, 0>>, <<5, 0>>, <<390, 0>>, <<-240, 319>>, <<240, 320>>,
            <<400, 0>>, <<-3000, 4000>>, <<0, -399>>}
Gs == {0, 10, 10000}

InitForce ==
    \E o \in Offsets, m1 \in Masses, m2 \in Masses, gg \in Gs, x \in {0, 4000} :
        InitUnit(<<Body(x, 3000, m1, <<1, 1>>, <<255, 0, 0>>, 5, 800, 600),
                   Body(x + o[1], 3000 + o[2], m2, <<-1, 1>>, <<0, 255, 0>>, 5, 800, 600)>>,
                 [fx |-> 0, fy |-> 0, g |-> gg])

NextForce == CallGravitationalForce

SpecForce == InitForce /\ [][NextForce]_vars

(***************************************************************************)
(* Properties                                                              *)
(***************************************************************************)
\* The sum, by position in the list, of the pairwise forces on bs[i] from
\* every bs[j] with j # i.
RECURSIVE SumOthers(_, _, _, _)
SumOthers(bs, i, g, j) ==
    IF j > Len(bs) THEN <<0, 0>>
    ELSE LET rest == SumOthers(bs, i, g, j + 1)
             f == IF j = i THEN <<0, 0>>
                  ELSE calculate_gravitational_force(bs[i], bs[j], g)
         IN  <<f[1] + rest[1], f[2] + rest[2]>>

\* A coordinate p and velocity v after the boundary rule for the range
\* [0, bound] with rebound factor r.
Clamped(p, bound) == IF p < 0 THEN 0 ELSE IF p > bound THEN bound ELSE p
Rebound(p, v, bound, r) == IF p < 0 \/ p > bound THEN -TDiv(v * r, 10) ELSE v

InScreen(b, pos) ==
    /\ 0 <= pos[1] /\ pos[1] <= Fx(b.screen_width)
    /\ 0 <= pos[2] /\ pos[2] <= Fx(b.screen_height)

\* C1: after n update calls the trace is the min(n, 100) most recent
\* post-update positions, oldest first (so its length is 100 after 150 calls).
C1_TraceHoldsLast100 ==
    LET n == calls
        k == Min(n, 100)
    IN  bodies[1].trace = SubSeq(hist, n - k + 1, n)

\* C2: a click handled while len(bodies) = max_bodies leaves the bodies as
\* they were, emits one warning, raises nothing and leaves the loop running.
C2_ClickAtMaxWarns ==
    (last.op = "click" /\ Len(last.pre) = opts.max_bodies) =>
        /\ bodies = last.pre
        /\ warnings = last.warnings + 1
        /\ pc = "events"
        /\ running = last.running

C2_Witness ==
    /\ last.op = "click"
    /\ Len(last.pre) = opts.max_bodies
    /\ Len(last.pre) > 3
    /\ running

\* C3: the number of bodies never exceeds max_bodies, whatever max_bodies is.
C3_BodiesWithinMax == Len(bodies) <= opts.max_bodies

\* C4: the net force calculate_grav_force computes for a body is the sum of
\* the pairwise forces from every other body of the list; no two distinct
\* bodies of the list are equal under __eq__, so only the body itself is skipped.
C4_NetForceSumsAllOthers ==
    /\ \A a, b \in 1 .. Len(bodies) : a # b => ~Eq(bodies[a], bodies[b])
    /\ last.op = "step" => last.force = SumOthers(last.pre, last.i, opts.g, 1)

C4_Witness ==
    /\ last.op = "step"
    /\ Len(bodies) = 10
    /\ last.i = 10
    /\ last.force # <<0, 0>>

\* C5: with 3 <= n < max_bodies bodies, a click raises nothing and appends
\* exactly one body whose color is the palette entry (n - 3) mod 7.
C5_ClickAppendsCyclingColor ==
    LET n == Len(last.pre)
    IN  (last.op = "click" /\ 3 <= n /\ n < opts.max_bodies) =>
            /\ pc # "error"
            /\ Len(bodies) = n + 1
            /\ SubSeq(bodies, 1, n) = last.pre
            /\ bodies[n + 1].color = COLORS[((n - 3) % 7) + 1]

\* C6: after update the body lies in [0, screen_width] x [0, screen_height],
\* and so does every position of its trace.
C6_UpdateKeepsInScreen ==
    LET b == bodies[1]
    IN  last.op = "update" =>
            /\ InScreen(b, <<b.x, b.y>>)
            /\ \A k \in 1 .. Len(b.trace) : InScreen(b, b.trace[k])

C6_Witness ==
    LET b == bodies[1]
        moved == integrate(last.pre[1], last.force[1], last.force[2])
    IN  /\ last.op = "update"
        /\ moved.x > Fx(b.screen_width)
        /\ moved.y < 0
        /\ b.screen_width > 0
        /\ Len(b.trace) = 2

\* C7: check_boundaries acts on each axis by itself: a coordinate outside
\* [0, bound] is clamped and the velocity on that axis becomes
\* -rebound_factor times what it was; inside, both are left as they were.
C7_CheckBoundariesPerAxis ==
    LET b0 == last.pre[1]
        b == bodies[1]
        w == Fx(b0.screen_width)
        h == Fx(b0.screen_height)
    IN  last.op = "check" =>
            /\ b.x = Clamped(b0.x, w)
            /\ b.vx = Rebound(b0.x, b0.vx, w, b0.rebound_factor)
            /\ b.y = Clamped(b0.y, h)
            /\ b.vy = Rebound(b0.y, b0.vy, h, b0.rebound_factor)
            /\ (0 <= b0.x /\ b0.x <= w) => (b.x = b0.x /\ b.vx = b0.vx)
            /\ (0 <= b0.y /\ b0.y <= h) => (b.y = b0.y /\ b.vy = b0.vy)
            /\ b = [b0 EXCEPT !.x = b.x, !.y = b.y, !.vx = b.vx, !.vy = b.vy]

\* y < 0 with vy = -5 and rebound_factor = 0.5 gives y = 0, vy = +2.5,
\* while x, inside the screen, keeps its position and velocity.
C7_Witness ==
    LET b0 == last.pre[1]
        b == bodies[1]
    IN  /\ last.op = "check"
        /\ b0.y < 0 /\ b0.vy = -50 /\ b0.rebound_factor = 5
        /\ b.y = 0 /\ b.vy = 25
        /\ 0 < b0.x /\ b0.x < Fx(b0.screen_width)
        /\ b.x = b0.x /\ b.vx = b0.vx /\ b.vx # 0

\* C8: for two bodies less than 40 apart calculate_gravitational_force
\* returns (0, 0), whatever g and the masses, and changes neither body.
C8_ForceZeroInsideCutoff ==
    LET dx == last.pre[2].x - last.pre[1].x
        dy == last.pre[2].y - last.pre[1].y
    IN  (last.op = "force" /\ dx * dx + dy * dy < Fx(40) * Fx(40)) =>
            /\ last.force = <<0, 0>>
            /\ bodies = last.pre

C8_Witness ==
    LET dx == bodies[2].x - bodies[1].x
        dy == bodies[2].y - bodies[1].y
    IN  /\ last.op = "force"
        /\ dx * dx + dy * dy < Fx(40) * Fx(40)
        /\ dx * dx + dy * dy > Fx(39) * Fx(39)
        /\ arg.g > 0
        /\ last.force = <<0, 0>>

\* C9: update adds force/mass to the velocity, adds the new velocity to the
\* position, applies the boundary rule, then appends the resulting position
\* to the trace once; it does so for every force, zero included.
C9_UpdateStepsInOrder ==
    LET b0 == last.pre[1]
        b == bodies[1]
        vx == b0.vx + TDiv(last.force[1], b0.mass)
        vy == b0.vy + TDiv(last.force[2], b0.mass)
        w == Fx(b0.screen_width)
        h == Fx(b0.screen_height)
    IN  last.op = "update" =>
            /\ b.x = Clamped(b0.x + vx, w)
            /\ b.vx = Rebound(b0.x + vx, vx, w, b0.rebound_factor)
            /\ b.y = Clamped(b0.y + vy, h)
            /\ b.vy = Rebound(b0.y + vy, vy, h, b0.rebound_factor)
            /\ Len(b.trace) >= 1
            /\ b.trace[Len(b.trace)] = <<b.x, b.y>>
            /\ Len(b0.trace) + 1 < TraceLimit => b.trace = Append(b0.trace, <<b.x, b.y>>)

\* A zero-force call that moved the body, and a call whose force changed
\* the velocity before the position was advanced.
C9_Witness ==
    LET b0 == last.pre[1]
        b == bodies[1]
    IN  /\ last.op = "update"
        /\ last.force = <<0, 0>>
        /\ b0.vx # 0
        /\ b.x = b0.x + b0.vx
        /\ Len(b.trace) = Len(b0.trace) + 1
        /\ Len(b0.trace) = 1

\* C10: in a frame the bodies are stepped in list order, each once and in
\* place: body i's force is computed from the bodies before it as already
\* stepped in this frame and the bodies after it as the frame found them,
\* and stepping body i changes no other body.
MixedView(i) ==
    [j \in 1 .. Len(bodies) |-> IF j < i THEN bodies[j] ELSE frame0[j]]

C10_SteppedInPlaceInOrder ==
    /\ last.op = "begin" => idx = 1
    /\ last.op = "end" => idx = Len(bodies) + 1
    /\ last.op = "step" =>
        LET i == last.i
            f == SumOthers(MixedView(i), i, opts.g, 1)
        IN  /\ idx = i + 1
            /\ Len(bodies) = Len(frame0)
            /\ \A j \in 1 .. Len(bodies) : j # i => bodies[j] = last.pre[j]
            /\ \A j \in 1 .. Len(bodies) : j > i => bodies[j] = frame0[j]
            /\ \A j \in 1 .. Len(bodies) :
                   j < i => Len(bodies[j].trace) = Len(frame0[j].trace) + 1
            /\ bodies[i] = update(frame0[i], f[1], f[2])

\* A step whose force differs from the one the frame's starting positions give.
C10_Witness ==
    /\ last.op = "step"
    /\ last.i >= 2
    /\ frames = 2
    /\ last.force # SumOthers(frame0, last.i, opts.g, 1)

====
